---- MODULE Spec2Model ----
(***************************************************************************)
(* The event store of scraperetivo (src/storage/event_storage.py): one     *)
(* JSON document rewritten whole by every mutating call, guarded by a      *)
(* per-instance threading.Lock that is taken separately by _load_events    *)
(* and by _save_events.                                                    *)
(*                                                                         *)
(* Two EventStorage instances share the backing file "data/events.json":   *)
(* the crawler pipeline's (src/crawler/pipelines.py:30) and the delivery   *)
(* bot's (src/telegram_bot/bot.py:35).  Each has a lock of its own.        *)
(*                                                                         *)
(* Values.  Python None is "None" in string-valued fields and <<>> in      *)
(* date-valued fields.  A datetime is <<day, hour>>, a date is <<day>>,    *)
(* an ISO-8601 string is <<"iso", day, hour>>.  Days are counted from the  *)
(* day of the clock reading (day 0), so -30 is thirty days ago.            *)
(***************************************************************************)
EXTENDS Integers, Sequences, FiniteSets, TLC

VARIABLES
    file,    \* the backing document: [kind, data]
    lock,    \* lock[s]: the thread holding store instance s's lock, or NoThread
    pc,      \* pc[t]: where thread t stands in its call
    op,      \* op[t]: the call thread t is in, "none" between calls
    data,    \* data[t]: the list the call is about to write (events_data)
    seen,    \* seen[t]: the kind of document the thread's latest load read
    calls,   \* Spec: number of calls the threads have made so far
    hist,    \* Spec: the ids each thread has passed to save_events, whether
             \* a list passed held an id twice, and whether
             \* remove_old_events has been called; SpecSweep: also the ids
             \* the save appended to the list it loaded, the ids the
             \* eviction left out of the list it is to write, and whether
             \* one call began while the other was under way
    log,     \* SpecSeq: the latest call, its argument and result, the
             \* document before it, whether a rewrite has begun since
    build,   \* SpecBuild: the latest direct call of process_event, its
             \* argument and what it returned, and the stored form read back
    pipe,    \* SpecPipe: the item pipeline: its enrichment client, the
             \* latest page's field bag, item and record, the items so far
    cmd,     \* SpecBot: the events_command invocation under way: the queried
             \* and the selected lists, the position, the sends so far and
             \* the message sent in place of events
    cap,     \* SpecCaption: the latest event given to format_event_caption
             \* and the caption returned
    listing, \* SpecList: the spiders' counters, the list pages waiting for
             \* their parse callback and the requests yielded per start URL
    detail   \* SpecCrawl: the detail pages fetched so far, the latest one
             \* and what parse_event_details made of it

vars == <<file, lock, pc, op, data, seen, calls, hist, log, build, pipe, cmd, cap,
          listing, detail>>

\* The variables of the record builder, the pipeline and the delivery side
side == <<build, pipe, cmd, cap, listing, detail>>

----------------------------------------------------------------------------
(* Bounds of the model *)

MaxId == 3
MaxBatch == 2
MaxCalls == 2
MaxItems == 2
MaxUpcoming == 4
MaxBlocks == 2
MaxPages == 3

(* Program constants *)

DefaultDaysOld == 30
MaxItemsPerUrl == 15

----------------------------------------------------------------------------
(* Threads and store instances *)

NoThread == "nobody"
PipelineThreads == {"p1", "p2"}
BotThreads == {"b1"}
Threads == PipelineThreads \cup BotThreads

StoreOf(t) == IF t \in PipelineThreads THEN "pipeline" ELSE "bot"
Stores == {"pipeline", "bot"}

----------------------------------------------------------------------------
(* Python values *)

None == "None"
NoDate == <<>>

Range(s) == {s[i] : i \in 1..Len(s)}

SeqsUpTo(S, n) == UNION {[1..k -> S] : k \in 0..n}

\* datetime.date(): the date part of a datetime
DatePart(dt) == <<dt[1]>>

\* datetime - timedelta(days=n)
MinusDays(dt, n) == <<dt[1] - n, dt[2]>>

\* datetime.isoformat() / date.isoformat()
IsoFormat(d) == <<"iso">> \o d

\* datetime.fromisoformat(): a date-only string parses to midnight
FromIsoFormat(s) == IF Len(s) = 2 THEN <<s[2], 0>> ELSE <<s[2], s[3]>>

----------------------------------------------------------------------------
(* Event (src/tourist_events/storage/models.py) *)

Ids == 1..MaxId

\* The Event object that carries id i.  Ids are uuid4 values drawn when the
\* object is built (models.py:16), so an id stands for one object; its other
\* fields follow from i so that the ids cover undated, old, boundary and
\* current events of both categories.
DateOfId(i) ==
    CASE i % 4 = 1 -> NoDate
      [] i % 4 = 2 -> <<0 - DefaultDaysOld - 1, 0>>
      [] i % 4 = 3 -> <<0 - DefaultDaysOld, 0>>
      [] OTHER     -> <<0, 18>>

TypeOfId(i) == IF i % 2 = 1 THEN "Concert" ELSE "Unknown"

Event(i) ==
    [ id          |-> i,
      title       |-> "title",
      description |-> "description",
      date        |-> DateOfId(i),
      image_url   |-> IF i % 2 = 0 THEN "http://img" ELSE None,
      source_url  |-> IF i % 3 = 0 THEN "https://www.b.it/e" ELSE "https://a.it/e",
      event_type  |-> TypeOfId(i),
      summary_en  |-> IF i % 3 = 1 THEN None ELSE "summary",
      created_at  |-> <<0, 9>> ]

Events == {Event(i) : i \in Ids}

\* Event.to_dict
ToDict(e) ==
    [ id          |-> e.id,
      title       |-> e.title,
      description |-> e.description,
      date        |-> IF e.date # NoDate THEN IsoFormat(e.date) ELSE NoDate,
      image_url   |-> e.image_url,
      source_url  |-> e.source_url,
      event_type  |-> e.event_type,
      summary_en  |-> e.summary_en,
      created_at  |-> IsoFormat(e.created_at) ]

FromDictEpoch(d) ==
    [ id          |-> d.id,
      title       |-> d.title,
      description |-> d.description,
      date        |-> IF d.date # NoDate THEN FromIsoFormat(d.date) ELSE <<0 - 20000, 0>>,
      image_url   |-> d.image_url,
      source_url  |-> d.source_url,
      event_type  |-> d.event_type,
      summary_en  |-> d.summary_en,
      created_at  |-> FromIsoFormat(d.created_at) ]

\* Event.from_dict
FromDict(d) ==
    [ id          |-> d.id,
      title       |-> d.title,
      description |-> d.description,
      date        |-> IF d.date # NoDate THEN FromIsoFormat(d.date) ELSE NoDate,
      image_url   |-> d.image_url,
      source_url  |-> d.source_url,
      event_type  |-> d.event_type,
      summary_en  |-> d.summary_en,
      created_at  |-> FromIsoFormat(d.created_at) ]

----------------------------------------------------------------------------
(* EventStorage (src/storage/event_storage.py): the pure parts *)

\* The document _ensure_storage_file_exists creates: json.dump([], f)
EmptyDocument == [kind |-> "list", data |-> <<>>]

\* The document while a rewrite is under way: open(path, 'w') has truncated
\* it ("empty"), or part of the new text has been flushed ("partial")
Truncated == [kind |-> "empty", data |-> <<>>]
Partial == [kind |-> "partial", data |-> <<>>]

\* Documents the program does not write whole: no file at the path, a JSON text
\* whose top level is not an array, and bytes that are not UTF-8 (a text saved
\* in another encoding, or a rewrite cut inside a character of more than one
\* byte, which json.dump writes as it is under ensure_ascii=False)
Absent == [kind |-> "absent", data |-> <<>>]
NonArray == [kind |-> "nonarray", data |-> <<>>]
Undecodable == [kind |-> "undecodable", data |-> <<>>]

DocumentKinds == {"list", "empty", "partial", "absent", "nonarray", "undecodable"}

\* What _load_events raises: open() failing is an IOError and a text json.loads
\* rejects is a JSONDecodeError, both caught; f.read() on bytes that are not
\* UTF-8 raises UnicodeDecodeError, a ValueError that the except clause does
\* not name
LoadExc(f) == IF f.kind = "undecodable" THEN "UnicodeDecodeError" ELSE None

\* _load_events without its lock, when it returns: the list in the document,
\* and [] for no file, for an empty file, for text json.loads rejects, and for
\* a top level that is no list
LoadResult(f) == IF f.kind = "list" THEN f.data ELSE <<>>

IdIsNewAlways(e, ids) == TRUE

\* event.id not in current_event_ids
IdIsNew(e, ids) == e.id \notin ids

AddIdForgets(ids, e) == ids

\* current_event_ids.add(event.id)
AddId(ids, e) == ids \cup {e.id}

\* The loop of save_events over new_events: the list and added_count
RECURSIVE SaveLoop(_, _, _, _)
SaveLoop(cur, ids, new_events, added_count) ==
    IF new_events = <<>> THEN [data |-> cur, added_count |-> added_count]
    ELSE LET event == Head(new_events) IN
         IF IdIsNew(event, ids)
         THEN SaveLoop(Append(cur, ToDict(event)), AddId(ids, event),
                       Tail(new_events), added_count + 1)
         ELSE SaveLoop(cur, ids, Tail(new_events), added_count)

\* {event_data.get('id') for event_data in current_events_data}
IdsOf(list) == {list[i].id : i \in 1..Len(list)}

\* Python truth value of a string-or-None and of a date-or-None
Truthy(x) == x # None /\ x # ""
TruthyDate(d) == d # NoDate

\* Python's ordering of datetime.datetime and datetime.date values: a datetime
\* against a date raises TypeError ("can't compare datetime.datetime to
\* datetime.date", either way round); two dates, or two datetimes, compare by
\* value.  The result is "True", "False" or the exception's name.
PyLT(a, b) ==
    IF Len(a) # Len(b) THEN "TypeError"
    ELSE IF \/ a[1] < b[1]
            \/ a[1] = b[1] /\ Len(a) = 2 /\ a[2] < b[2]
         THEN "True" ELSE "False"

PyGT(a, b) == PyLT(b, a)

PyGE(a, b) ==
    IF Len(a) # Len(b) THEN "TypeError"
    ELSE IF PyLT(a, b) = "True" THEN "False" ELSE "True"

\* filters.get('min_date') and (not event.date or event.date.date() < min_date):
\* "True" when the event fails the lower bound
FailsMinDate(event, min_date) ==
    IF ~TruthyDate(min_date) THEN "False"
    ELSE IF ~TruthyDate(event.date) THEN "True"
    ELSE PyLT(DatePart(event.date), min_date)

\* filters.get('max_date') and (not event.date or event.date.date() > max_date)
FailsMaxDate(event, max_date) ==
    IF ~TruthyDate(max_date) THEN "False"
    ELSE IF ~TruthyDate(event.date) THEN "True"
    ELSE PyGT(DatePart(event.date), max_date)

\* event_type and event.event_type != event_type
FailsEventType(event, event_type) ==
    Truthy(event_type) /\ event.event_type # event_type

\* The body of the filter loop of get_events for one event: its three tests
\* are all evaluated, so a test that raises does so whatever the others say
EventMatches(event, filters) ==
    LET lo == FailsMinDate(event, filters.min_date)
        hi == FailsMaxDate(event, filters.max_date)
    IN  CASE lo \notin {"True", "False"} -> lo
          [] hi \notin {"True", "False"} -> hi
          [] OTHER -> IF ~FailsEventType(event, filters.event_type)
                         /\ lo = "False" /\ hi = "False"
                      THEN "True" ELSE "False"

\* [Event.from_dict(data) for data in events_data if data]: a stored object
\* always has its nine keys, so none is skipped as falsy
FromDicts(list) == [i \in 1..Len(list) |-> FromDict(list[i])]

\* The filter loop of get_events: it ends with the exception of the first
\* comparison that raises
RECURSIVE FilterLoop(_, _, _)
FilterLoop(events, filters, filtered_events) ==
    IF events = <<>> THEN [exc |-> None, value |-> filtered_events]
    ELSE LET match == EventMatches(Head(events), filters) IN
         CASE match = "True"  -> FilterLoop(Tail(events), filters, Append(filtered_events, Head(events)))
           [] match = "False" -> FilterLoop(Tail(events), filters, filtered_events)
           [] OTHER           -> [exc |-> match, value |-> <<>>]

\* get_events after the load: "if filters:" is false for None and for {}
FilterEvents(events, filters) ==
    IF filters.truthy
    THEN FilterLoop(events, filters, <<>>)
    ELSE [exc |-> None, value |-> events]

\* get_event_by_id after the load: the first match, or None (here <<>>)
FindById(list, event_id) ==
    LET hits == SelectSeq(list, LAMBDA d : d.id = event_id) IN
    IF hits = <<>> THEN <<>> ELSE <<FromDict(Head(hits))>>

KeepEventDatedOnly(event, cutoff_date) ==
    IF event.date = NoDate THEN "False" ELSE PyGE(event.date, DatePart(cutoff_date))

\* event.date is None or event.date >= cutoff_date.date()
KeepEvent(event, cutoff_date) ==
    IF event.date = NoDate THEN "True" ELSE PyGE(event.date, DatePart(cutoff_date))

\* The loop of remove_old_events: it ends with the exception of the first
\* comparison that raises
RECURSIVE RemoveScan(_, _, _, _)
RemoveScan(list, cutoff_date, kept, removed) ==
    IF list = <<>> THEN [exc |-> None, kept |-> kept, removed |-> removed]
    ELSE LET keep == KeepEvent(FromDict(Head(list)), cutoff_date) IN
         CASE keep = "True"  -> RemoveScan(Tail(list), cutoff_date, Append(kept, Head(list)), removed)
           [] keep = "False" -> RemoveScan(Tail(list), cutoff_date, kept, removed + 1)
           [] OTHER          -> [exc |-> keep, kept |-> kept, removed |-> removed]

----------------------------------------------------------------------------
(* Arguments of the calls *)

NoFilters == [truthy |-> FALSE, event_type |-> None, min_date |-> NoDate, max_date |-> NoDate]

\* A filters dict with at least one key; an absent key reads as None
Filters(event_type, min_date, max_date) ==
    [truthy |-> TRUE, event_type |-> event_type, min_date |-> min_date, max_date |-> max_date]

\* datetime.utcnow() / datetime.now() at the call: noon of day 0
Now == <<0, 12>>

\* filters = {'min_date': datetime.now().date()} of events_command
DeliveryFilters == Filters(None, DatePart(Now), NoDate)

RetNone == [exc |-> None, value |-> <<>>]

\* The lists of Event objects a caller may pass to save_events
Batches == SeqsUpTo(Events, MaxBatch)

\* The filters a caller may pass to get_events: a category or none or "",
\* bounds that are dates, as events_command passes, or datetimes, as the
\* docstring of get_events and the module's demo pass
EventTypeChoices == {None, "", "Concert"}
MinDateChoices == {NoDate, <<0 - DefaultDaysOld>>, Now}
MaxDateChoices == {NoDate, <<0 - DefaultDaysOld>>}
FilterChoices ==
    {NoFilters} \cup
    {Filters(ty, lo, hi) : ty \in EventTypeChoices, lo \in MinDateChoices, hi \in MaxDateChoices}

DaysOldChoices == {0, DefaultDaysOld}

----------------------------------------------------------------------------
(* State *)

NoHist == [saved |-> [t \in Threads |-> {}], repeated |-> FALSE, swept |-> FALSE,
           appended |-> {}, evicted |-> {}, overlap |-> FALSE]

NoArgs == [new_events |-> <<>>, filters |-> NoFilters, event_id |-> 0, days_old |-> 0]

NoCall == [caller |-> NoThread, op |-> "none", arg |-> NoArgs, ret |-> RetNone,
           before |-> EmptyDocument, wrote |-> FALSE, prev_save |-> <<>>]

\* The new variables before anything has been called
NoBuild == [op |-> "none", raw |-> <<>>, client |-> FALSE, reply |-> "none",
            ret |-> <<>>, back |-> <<>>]

NoPipe == [stage |-> "closed", client |-> FALSE, data |-> <<>>, item |-> <<>>,
           reply |-> "none",
           out |-> [ret |-> <<>>, summary |-> "<not called>", detected |-> "<not called>"],
           count |-> 0]

NoCmd == [stage |-> "idle", events |-> <<>>, final |-> <<>>, pos |-> 0, sends |-> <<>>,
          notice |-> "none"]

NoCap == [op |-> "none", event |-> <<>>, caption |-> <<>>]

NoListing == [spider |-> "none", count |-> 0, queue |-> {}, yielded |-> <<>>,
              offered |-> <<>>]

NoDetail == [visited |-> {}, failed |-> {}, page |-> <<>>, trace |-> <<>>]

TypeOK ==
    /\ file.kind \in DocumentKinds
    /\ lock \in [Stores -> Threads \cup {NoThread}]
    /\ pc \in [Threads -> {"idle", "write", "writing"}]
    /\ op \in [Threads -> {"none", "save", "remove"}]
    /\ seen \in [Threads -> {"none"} \cup DocumentKinds]
    /\ calls \in 0..MaxCalls
    /\ hist.saved \in [Threads -> SUBSET Ids]
    /\ hist.repeated \in BOOLEAN
    /\ hist.swept \in BOOLEAN
    /\ hist.appended \subseteq Ids
    /\ hist.evicted \subseteq Ids
    /\ hist.overlap \in BOOLEAN

Init ==
    /\ file = EmptyDocument
    /\ lock = [s \in Stores |-> NoThread]
    /\ pc = [t \in Threads |-> "idle"]
    /\ op = [t \in Threads |-> "none"]
    /\ data = [t \in Threads |-> <<>>]
    /\ seen = [t \in Threads |-> "none"]
    /\ calls = 0
    /\ hist = NoHist
    /\ log = NoCall
    /\ build = NoBuild
    /\ pipe = NoPipe
    /\ cmd = NoCmd
    /\ cap = NoCap
    /\ listing = NoListing
    /\ detail = NoDetail

\* "with self.lock" can be entered
LockFree(t) == lock[StoreOf(t)] = NoThread

ShouldWriteAlways(count) == TRUE

\* added_count > 0, removed_count > 0
ShouldWrite(count) == count > 0

----------------------------------------------------------------------------
(* EventStorage: the calls.  A call's load (lock, read, unlock) is one step; *)
(* the work on the loaded list is local to the thread and belongs to that   *)
(* step; the rewrite is _save_events, which takes the lock anew.  What a    *)
(* call returns is an operator of the document its load read.               *)

\* save_events up to its decision to write; it returns None
SaveEvents(t, new_events) ==
    /\ pc[t] = "idle"
    /\ IF new_events = <<>>
       THEN UNCHANGED <<pc, op, data, seen>>
       ELSE /\ LockFree(t)
            /\ seen' = [seen EXCEPT ![t] = file.kind]
            /\ LET current_events_data == LoadResult(file)
                   loop == SaveLoop(current_events_data, IdsOf(current_events_data),
                                    new_events, 0)
               IN  IF ShouldWrite(loop.added_count)
                   THEN /\ data' = [data EXCEPT ![t] = loop.data]
                        /\ pc' = [pc EXCEPT ![t] = "write"]
                        /\ op' = [op EXCEPT ![t] = "save"]
                   ELSE UNCHANGED <<pc, op, data>>
    /\ UNCHANGED <<file, lock>>

\* get_events and what it returns
GetEventsReturn(f, filters) ==
    IF LoadExc(f) # None THEN [exc |-> LoadExc(f), value |-> <<>>]
    ELSE FilterEvents(FromDicts(LoadResult(f)), filters)

GetEvents(t, filters) ==
    /\ pc[t] = "idle"
    /\ LockFree(t)
    /\ seen' = [seen EXCEPT ![t] = file.kind]
    /\ UNCHANGED <<file, lock, pc, op, data>>

\* get_event_by_id and what it returns
GetEventByIdReturn(f, event_id) ==
    IF LoadExc(f) # None THEN [exc |-> LoadExc(f), value |-> <<>>]
    ELSE [exc |-> None, value |-> FindById(LoadResult(f), event_id)]

GetEventById(t, event_id) ==
    /\ pc[t] = "idle"
    /\ LockFree(t)
    /\ seen' = [seen EXCEPT ![t] = file.kind]
    /\ UNCHANGED <<file, lock, pc, op, data>>

\* remove_old_events up to its decision to write; it returns None or raises
RemoveOldEventsScan(f, days_old) ==
    RemoveScan(LoadResult(f), MinusDays(Now, days_old), <<>>, 0)

RemoveOldEventsReturn(f, days_old) ==
    [exc |-> RemoveOldEventsScan(f, days_old).exc, value |-> <<>>]

RemoveOldEvents(t, days_old) ==
    /\ pc[t] = "idle"
    /\ LockFree(t)
    /\ seen' = [seen EXCEPT ![t] = file.kind]
    /\ LET scan == RemoveOldEventsScan(file, days_old)
       IN  IF scan.exc = None /\ ShouldWrite(scan.removed)
           THEN /\ data' = [data EXCEPT ![t] = scan.kept]
                /\ pc' = [pc EXCEPT ![t] = "write"]
                /\ op' = [op EXCEPT ![t] = "remove"]
           ELSE UNCHANGED <<pc, op, data>>
    /\ UNCHANGED <<file, lock>>

\* _save_events: with self.lock; open(path, 'w') truncates the document
WriteOpen(t) ==
    /\ pc[t] = "write"
    /\ LockFree(t)
    /\ lock' = [lock EXCEPT ![StoreOf(t)] = t]
    /\ file' = Truncated
    /\ pc' = [pc EXCEPT ![t] = "writing"]
    /\ log' = [log EXCEPT !.wrote = TRUE]
    /\ UNCHANGED <<op, data, seen, calls, hist, side>>

\* _save_events: json.dump has written part of the text through to the file
WriteFlush(t) ==
    /\ pc[t] = "writing"
    /\ file = Truncated
    /\ file' = Partial
    /\ UNCHANGED <<lock, pc, op, data, seen, calls, hist, log, side>>

\* _save_events: the text is complete, the file is closed, the lock released,
\* and the call returns
WriteClose(t) ==
    /\ pc[t] = "writing"
    /\ file' = [kind |-> "list", data |-> data[t]]
    /\ lock' = [lock EXCEPT ![StoreOf(t)] = NoThread]
    /\ pc' = [pc EXCEPT ![t] = "idle"]
    /\ op' = [op EXCEPT ![t] = "none"]
    /\ data' = [data EXCEPT ![t] = <<>>]
    /\ UNCHANGED <<seen, calls, hist, log, side>>

----------------------------------------------------------------------------
(* Spec: the crawler's pipeline threads save and sweep while the bot reads; *)
(* the threads make MaxCalls calls between them                             *)

Counted == calls < MaxCalls /\ calls' = calls + 1 /\ UNCHANGED <<log, side>>

Submitted(t, new_events) ==
    LET ids == {new_events[i].id : i \in 1..Len(new_events)} IN
    hist' = [hist EXCEPT !.saved[t] = @ \cup ids,
                         !.repeated = @ \/ Cardinality(ids) < Len(new_events)]

Next ==
    \/ \E t \in PipelineThreads, b \in Batches :
          Counted /\ SaveEvents(t, b) /\ Submitted(t, b)
    \/ \E t \in PipelineThreads :
          Counted /\ RemoveOldEvents(t, DefaultDaysOld) /\ hist' = [hist EXCEPT !.swept = TRUE]
    \/ \E t \in BotThreads :
          Counted /\ GetEvents(t, DeliveryFilters) /\ UNCHANGED hist
    \/ \E t \in BotThreads, i \in Ids :
          Counted /\ GetEventById(t, i) /\ UNCHANGED hist
    \/ \E t \in Threads : WriteOpen(t) \/ WriteFlush(t) \/ WriteClose(t)

Spec == Init /\ [][Next]_vars

(* SpecSeq: one thread makes one call after the other, with every argument, *)
(* and the latest call is on record                                         *)

Caller == "p1"

Logged(o, a, r) ==
    /\ log' = [caller |-> Caller, op |-> o, arg |-> a, ret |-> r,
               before |-> file, wrote |-> FALSE,
               prev_save |-> IF log.op = "save" /\ Len(log.arg.new_events) = 1
                                THEN log.arg.new_events ELSE <<>>]
    /\ UNCHANGED <<calls, hist, side>>

NextSeq ==
    \/ \E b \in Batches :
          SaveEvents(Caller, b) /\ Logged("save", [NoArgs EXCEPT !.new_events = b], RetNone)
    \/ \E d \in DaysOldChoices :
          /\ RemoveOldEvents(Caller, d)
          /\ Logged("remove", [NoArgs EXCEPT !.days_old = d], RemoveOldEventsReturn(file, d))
    \/ \E f \in FilterChoices :
          /\ GetEvents(Caller, f)
          /\ Logged("get", [NoArgs EXCEPT !.filters = f], GetEventsReturn(file, f))
    \/ \E i \in Ids :
          /\ GetEventById(Caller, i)
          /\ Logged("get_by_id", [NoArgs EXCEPT !.event_id = i], GetEventByIdReturn(file, i))
    \/ WriteOpen(Caller) \/ WriteFlush(Caller) \/ WriteClose(Caller)

SpecSeq == Init /\ [][NextSeq]_vars

(* SpecRead: the reads of a store whose document is any of the kinds, a     *)
(* whole list or one the program did not write; one thread reads, with      *)
(* every argument, and the latest call is on record                         *)

\* The documents a read may find at the path
Documents ==
    {[kind |-> "list", data |-> [i \in 1..Len(b) |-> ToDict(b[i])]] :
        b \in {c \in Batches : Cardinality(Range(c)) = Len(c)}}
    \cup {Absent, Truncated, Partial, NonArray, Undecodable}

InitRead ==
    /\ file \in Documents
    /\ lock = [s \in Stores |-> NoThread]
    /\ pc = [t \in Threads |-> "idle"]
    /\ op = [t \in Threads |-> "none"]
    /\ data = [t \in Threads |-> <<>>]
    /\ seen = [t \in Threads |-> "none"]
    /\ calls = 0
    /\ hist = NoHist
    /\ log = NoCall
    /\ build = NoBuild
    /\ pipe = NoPipe
    /\ cmd = NoCmd
    /\ cap = NoCap
    /\ listing = NoListing
    /\ detail = NoDetail

NextRead ==
    \/ \E f \in FilterChoices :
          /\ GetEvents(Caller, f)
          /\ Logged("get", [NoArgs EXCEPT !.filters = f], GetEventsReturn(file, f))
    \/ \E i \in Ids :
          /\ GetEventById(Caller, i)
          /\ Logged("get_by_id", [NoArgs EXCEPT !.event_id = i], GetEventByIdReturn(file, i))

SpecRead == InitRead /\ [][NextRead]_vars

(* SpecSweep: on a store that holds a whole list, one thread of the         *)
(* pipeline calls save_events once and another calls remove_old_events      *)
(* once, in either order or one inside the other                            *)

Saver == "p1"
Sweeper == "p2"

\* The whole lists a store may hold: no id twice
StoredLists == {d \in Documents : d.kind = "list"}

InitSweep ==
    /\ file \in StoredLists
    /\ lock = [s \in Stores |-> NoThread]
    /\ pc = [t \in Threads |-> "idle"]
    /\ op = [t \in Threads |-> "none"]
    /\ data = [t \in Threads |-> <<>>]
    /\ seen = [t \in Threads |-> "none"]
    /\ calls = 0
    /\ hist = NoHist
    /\ log = NoCall
    /\ build = NoBuild
    /\ pipe = NoPipe
    /\ cmd = NoCmd
    /\ cap = NoCap
    /\ listing = NoListing
    /\ detail = NoDetail

\* The ids of the records remove_old_events leaves out of the list it writes;
\* none when it raises or writes nothing
EvictedIds(f, days_old) ==
    LET scan == RemoveOldEventsScan(f, days_old) IN
    IF scan.exc = None /\ ShouldWrite(scan.removed)
    THEN IdsOf(LoadResult(f)) \ IdsOf(scan.kept)
    ELSE {}

\* The one call of save_events
SweepSave(new_events) ==
    /\ new_events # <<>>
    /\ hist.saved[Saver] = {}
    /\ SaveEvents(Saver, new_events)
    /\ hist' = [hist EXCEPT
          !.saved[Saver] = {new_events[i].id : i \in 1..Len(new_events)},
          !.appended = {new_events[i].id : i \in 1..Len(new_events)}
                           \ IdsOf(LoadResult(file)),
          !.overlap = @ \/ pc[Sweeper] # "idle"]
    /\ UNCHANGED <<calls, log, side>>

\* The one call of remove_old_events
SweepRemove(days_old) ==
    /\ ~hist.swept
    /\ RemoveOldEvents(Sweeper, days_old)
    /\ hist' = [hist EXCEPT
          !.swept = TRUE,
          !.evicted = EvictedIds(file, days_old),
          !.overlap = @ \/ pc[Saver] # "idle"]
    /\ UNCHANGED <<calls, log, side>>

NextSweep ==
    \/ \E b \in Batches : SweepSave(b)
    \/ \E d \in DaysOldChoices : SweepRemove(d)
    \/ \E t \in {Saver, Sweeper} : WriteOpen(t) \/ WriteFlush(t) \/ WriteClose(t)

SpecSweep == InitSweep /\ [][NextSweep]_vars

----------------------------------------------------------------------------
(* The record builder: BaseEventSpider.create_event_item                    *)
(* (src/crawler/spiders/base_spider.py), EventProcessor.process_event       *)
(* (src/tourist_events/processor/event_processor.py) and its collaborators. *)
(* A field bag is a record of five fields; Missing marks a key that is not  *)
(* in the dict.  None (null) is "None" as in the stored form.               *)

Missing == "<missing>"

\* str.strip() on the strings of the model
Strip(s) ==
    CASE s = " "                       -> ""
      [] s = " Festa "                 -> "Festa"
      [] s = " Musica "                -> "Musica"
      [] s = " http://img "            -> "http://img"
      [] s = " 25 maggio ore 18 "      -> "25 maggio ore 18"
      [] s = " A music festival. "     -> "A music festival."
      [] OTHER                         -> s

\* dict.get(key): None for a key that is not there
DictGet(value) == IF value = Missing THEN None ELSE value

\* adapter.get(key, default)
AdapterGet(value, default) == IF value = Missing THEN default ELSE value

\* "x.strip() if x else ''" of create_event_item
StripOrEmpty(value) == IF Truthy(DictGet(value)) THEN Strip(value) ELSE ""

ItemHasTitle(item) == item.title # ""

\* not (not item['title'] or not item['source_url'])
ItemIsComplete(item) == item.title # "" /\ item.source_url # ""

\* create_event_item on the field bag (its argument data): the item, or
\* None (here <<>>)
CreateEventItem(bag) ==
    LET item == [ title       |-> StripOrEmpty(bag.title),
                  description |-> StripOrEmpty(bag.description),
                  date_text   |-> StripOrEmpty(bag.date_text),
                  image_url   |-> StripOrEmpty(bag.image_url),
                  source_url  |-> StripOrEmpty(bag.source_url) ]
    IN  IF ItemIsComplete(item) THEN <<item>> ELSE <<>>

\* What the chat-completion call of generate_english_summary comes to: an
\* exception, or the content of the first choice
ApiError == "<error>"
ApiReplies == {ApiError, " ", " A music festival. "}

GenerateEnglishSummaryEcho(text, reply) ==
    IF text = "" THEN ""
    ELSE IF reply = ApiError THEN text ELSE Strip(reply)

\* OpenAIClient.generate_english_summary: "" without a call for an empty
\* text, None when the call raises, else the stripped content
GenerateEnglishSummary(text, reply) ==
    IF text = "" THEN ""
    ELSE IF reply = ApiError THEN None ELSE Strip(reply)

\* f"{title} {raw_description}": the pieces of the text, in order
TitleAndDescription(title, raw_description) == <<title, " ", raw_description>>

\* OpenAIClient.detect_event_type: None for an empty text, else the
\* placeholder's "Unknown"
DetectEventType(text) ==
    IF \A i \in 1..Len(text) : text[i] = "" THEN None ELSE "Unknown"

\* search_dates of the dateparser library on the texts of the model: the
\* first date found, or nothing
SearchDates(text) ==
    CASE text = "25 maggio ore 18" -> <<<<5, 18>>>>
      [] text = "25 maggio"        -> <<<<5>>>>
      [] OTHER                     -> <<>>

\* DateExtractor.extract_date: a datetime, or None; a date without a time
\* becomes its midnight
ExtractDate(text) ==
    IF text = "" THEN NoDate
    ELSE LET date_results == SearchDates(text) IN
         IF date_results = <<>> THEN NoDate
         ELSE IF Len(date_results[1]) = 2 THEN date_results[1]
              ELSE <<date_results[1][1], 0>>

EventTypeAsIs(event_type) == event_type

\* event_type if event_type else "Unknown"
EventTypeOrUnknown(event_type) == IF Truthy(event_type) THEN event_type ELSE "Unknown"

\* A collaborator that process_event did not call
NotCalled == "<not called>"

\* process_event returned None
Rejected == [ret |-> <<>>, summary |-> NotCalled, detected |-> NotCalled]

\* process_event on a raw item, with an enrichment client or without one,
\* reply being what the summary call comes to, and id the uuid4 drawn for the
\* Event: what it returns (None is <<>>) and what its collaborators returned
ProcessEvent(raw, client, reply, id) ==
    LET source_url      == AdapterGet(raw.source_url, "Unknown Source")
        title_raw       == AdapterGet(raw.title, "")
        description_raw == AdapterGet(raw.description, "")
        date_text_raw   == AdapterGet(raw.date_text, "")
        image_url_raw   == AdapterGet(raw.image_url, "")
    IN  \* None.strip() raises AttributeError, caught by "except Exception"
        IF None \in {title_raw, description_raw, date_text_raw, image_url_raw}
        THEN Rejected
        ELSE
        LET title           == Strip(title_raw)
            raw_description == Strip(description_raw)
            date_text       == Strip(date_text_raw)
            image_url       == Strip(image_url_raw)
        IN  IF title = "" THEN Rejected
            ELSE
            LET english_summary ==
                    IF client THEN GenerateEnglishSummary(raw_description, reply)
                    ELSE NotCalled
                detected ==
                    IF client
                    THEN DetectEventType(TitleAndDescription(title, raw_description))
                    ELSE NotCalled
                final_event ==
                    [ id          |-> id,
                      title       |-> title,
                      description |-> raw_description,
                      summary_en  |-> IF client THEN english_summary ELSE None,
                      date        |-> ExtractDate(date_text),
                      image_url   |-> IF image_url # "" THEN image_url ELSE None,
                      source_url  |-> source_url,
                      event_type  |-> EventTypeOrUnknown(IF client THEN detected ELSE None),
                      created_at  |-> Now ]
            IN  [ret |-> <<final_event>>, summary |-> english_summary, detected |-> detected]

----------------------------------------------------------------------------
(* SpecBuild: process_event called on its own with a raw dict, as the demo  *)
(* of event_processor.py does, and the record it returns put into its       *)
(* stored form and read back                                                *)

RawCandidates ==
    [ title       : {Missing, None, " ", " Festa "},
      description : {Missing, None, " Musica "},
      date_text   : {Missing, "presto", " 25 maggio ore 18 "},
      image_url   : {Missing, "", " http://img "},
      source_url  : {Missing, None, " ", "https://a.it/e"} ]

\* processor.process_event(sample_item), once in a run of the demo
CallProcessEvent(raw, client, reply) ==
    /\ build.op = "none"
    /\ build' = [op |-> "process_event", raw |-> <<raw>>, client |-> client,
                 reply |-> reply, ret |-> ProcessEvent(raw, client, reply, 1).ret,
                 back |-> <<>>]
    /\ UNCHANGED <<file, lock, pc, op, data, seen, calls, hist, log, pipe, cmd, cap, listing, detail>>

\* processed_event.to_dict(), and Event.from_dict of the result
StoredFormAndBack ==
    /\ build.op = "process_event"
    /\ build.ret # <<>>
    /\ build' = [build EXCEPT !.op = "from_dict",
                              !.back = <<FromDict(ToDict(build.ret[1]))>>]
    /\ UNCHANGED <<file, lock, pc, op, data, seen, calls, hist, log, pipe, cmd, cap, listing, detail>>

NextBuild ==
    \/ \E raw \in RawCandidates, client \in BOOLEAN, reply \in ApiReplies :
          CallProcessEvent(raw, client, reply)
    \/ StoredFormAndBack

SpecBuild == Init /\ [][NextBuild]_vars

----------------------------------------------------------------------------
(* SpecPipe: one crawl.  A spider's parse_event_details hands the field bag *)
(* of a page to create_event_item and yields the item; Scrapy passes the    *)
(* item to TouristEventsPipeline.process_item (src/crawler/pipelines.py),   *)
(* which runs process_event and save_events in the reactor's one thread.    *)

\* The addresses of the pages fetched (response.url)
PageUrls == {"https://a.it/e", "https://www.b.it/e"}

\* What a spider extracts from a page: a selector that matches nothing
\* gives None
FieldBags ==
    { [ title       |-> t,
        description |-> d,
        date_text   |-> IF u = "https://a.it/e" THEN " 25 maggio ore 18 " ELSE None,
        image_url   |-> IF u = "https://a.it/e" THEN None ELSE " http://img ",
        source_url  |-> u ] :
      t \in {None, " ", " Festa "}, d \in {None, " Musica "},
      u \in {None, " "} \cup PageUrls }

\* The thread of the crawl
Crawler == "p1"

\* open_spider: EventProcessor(), whose OpenAIClient() fails without an API
\* key and leaves openai_client None, and EventStorage()
OpenSpider(client) ==
    /\ pipe.stage = "closed"
    /\ pipe' = [pipe EXCEPT !.stage = "open", !.client = client]
    /\ UNCHANGED <<file, lock, pc, op, data, seen, calls, hist, log, build, cmd, cap, listing, detail>>

\* parse_event_details from "if data:" on: create_event_item, and the item
\* yielded if there is one
ParseEventDetails(bag) ==
    /\ pipe.stage \in {"open", "done"}
    /\ pc[Crawler] = "idle"
    /\ pipe.count < MaxItems
    /\ LET item == CreateEventItem(bag) IN
       pipe' = [pipe EXCEPT !.stage = IF item # <<>> THEN "item" ELSE "open",
                            !.data = <<bag>>,
                            !.item = item,
                            !.reply = "none",
                            !.out = Rejected]
    /\ UNCHANGED <<file, lock, pc, op, data, seen, calls, hist, log, build, cmd, cap, listing, detail>>

\* process_item: process_event on the item, reply being what the summary
\* call comes to, and save_events([processed_event]) if a record came back.
\* The record's id is a fresh uuid4: the next number not yet given out.
ProcessItem(reply) ==
    /\ pipe.stage = "item"
    /\ LET out == ProcessEvent(pipe.item[1], pipe.client, reply, pipe.count + 1) IN
       /\ pipe' = [pipe EXCEPT !.stage = "done", !.reply = reply, !.out = out,
                               !.count = @ + 1]
       /\ IF out.ret # <<>>
          THEN SaveEvents(Crawler, out.ret)
          ELSE UNCHANGED <<file, lock, pc, op, data, seen>>
    /\ UNCHANGED <<calls, hist, log, build, cmd, cap, listing, detail>>

NextPipe ==
    \/ \E client \in BOOLEAN : OpenSpider(client)
    \/ \E bag \in FieldBags : ParseEventDetails(bag)
    \/ \E reply \in ApiReplies : ProcessItem(reply)
    \/ WriteOpen(Crawler) \/ WriteFlush(Crawler) \/ WriteClose(Crawler)

SpecPipe == Init /\ [][NextPipe]_vars

----------------------------------------------------------------------------
(* format_event_caption (src/tourist_events/telegram_bot/formatters.py).    *)
(* Only the lengths of the texts and what html.escape does to them matter   *)
(* to it: a text is a sequence of runs, a run being n characters each of    *)
(* which html.escape turns into w characters.  A falsy text (None or "")    *)
(* is the empty sequence.                                                   *)

CaptionLimit == 1024
SafeguardCut == 1021
EllipsisLen == 3
SepLen == 2
DateSegLen == 23
TitleWrap == 7
DescWrap == 25
SourceWrap == 21
NoDescriptionLen == 25

\* n characters that html.escape leaves alone, n "&" (each becomes "&amp;"),
\* n double quotes (each becomes "&quot;")
Plain(n) == <<[w |-> 1, n |-> n]>>
Amps(n) == <<[w |-> 5, n |-> n]>>
Quotes(n) == <<[w |-> 6, n |-> n]>>

\* len(text)
RECURSIVE TextLen(_)
TextLen(text) == IF text = <<>> THEN 0 ELSE Head(text).n + TextLen(Tail(text))

\* len(html.escape(text))
RECURSIVE EscapedLen(_)
EscapedLen(text) ==
    IF text = <<>> THEN 0 ELSE Head(text).w * Head(text).n + EscapedLen(Tail(text))

\* text[:k]
RECURSIVE Prefix(_, _)
Prefix(text, k) ==
    IF text = <<>> \/ k <= 0 THEN <<>>
    ELSE IF Head(text).n <= k
         THEN <<Head(text)>> \o Prefix(Tail(text), k - Head(text).n)
         ELSE <<[w |-> Head(text).w, n |-> k]>>

\* len("\n\n".join(part for part in parts if part)), parts given by length
RECURSIVE JoinLen(_)
JoinLen(parts) ==
    IF parts = <<>> THEN 0
    ELSE LET rest == JoinLen(Tail(parts)) IN
         IF Head(parts) = 0 THEN rest
         ELSE IF rest = 0 THEN Head(parts) ELSE Head(parts) + SepLen + rest

\* date_str, title_str and source_str, by length; 0 for an empty part
DateStrLen(event) == IF event.date # NoDate THEN DateSegLen ELSE 0
TitleStrLen(event) ==
    IF TextLen(event.title) > 0 THEN TitleWrap + EscapedLen(event.title) ELSE 0
SourceStrLen(event) ==
    IF TextLen(event.source_url) > 0 THEN SourceWrap + EscapedLen(event.source_url) ELSE 0

\* desc_content: the summary if there is one, else the description, else
\* "No description available."
DescContent(event) ==
    LET desc_content ==
            IF TextLen(event.summary_en) > 0 THEN event.summary_en ELSE event.description
    IN  IF TextLen(desc_content) = 0 THEN Plain(NoDescriptionLen) ELSE desc_content

\* The four parts before any truncation, by length
CaptionParts(event) ==
    <<DateStrLen(event), TitleStrLen(event),
      DescWrap + EscapedLen(DescContent(event)), SourceStrLen(event)>>

MaxDescLenNoOverhead(overhead) == CaptionLimit - EllipsisLen

\* max_desc_len = 1024 - overhead - 3, and not below 0
MaxDescLen(overhead) ==
    IF CaptionLimit - overhead - EllipsisLen < 0 THEN 0
    ELSE CaptionLimit - overhead - EllipsisLen

SliceLenWhole(length, stop) == length

\* len(s[:stop]) for a string of the given length
SliceLen(length, stop) == IF length < stop THEN length ELSE stop

\* The caption returned for an event with no title
EmptyCaption ==
    [parts |-> <<0, 0, 0, 0>>, shown |-> 0, ellipsis |-> FALSE, sliced |-> FALSE, len |-> 0]

\* format_event_caption.  The caption is described by the lengths of its four
\* parts as they stand in the joined text, the number of characters of
\* desc_content it shows, whether "..." follows them, whether the joined text
\* was sliced at 1021 by the last safeguard, and its length.
FormatEventCaption(event) ==
    IF TitleStrLen(event) = 0 THEN EmptyCaption
    ELSE
    LET desc_content == DescContent(event)
        caption_parts == CaptionParts(event)
        caption_len == JoinLen(caption_parts)
    IN  IF ~(caption_len > CaptionLimit)
        THEN [parts |-> caption_parts, shown |-> TextLen(desc_content),
              ellipsis |-> FALSE, sliced |-> FALSE, len |-> caption_len]
        ELSE
        LET overhead == caption_len - TextLen(desc_content)
            max_desc_len == MaxDescLen(overhead)
            truncated_desc_content == Prefix(desc_content, max_desc_len) \o Plain(EllipsisLen)
            parts2 == [caption_parts EXCEPT ![3] = DescWrap + EscapedLen(truncated_desc_content)]
            len2 == JoinLen(parts2)
        IN  IF len2 > CaptionLimit
            THEN [parts |-> parts2, shown |-> TextLen(Prefix(desc_content, max_desc_len)),
                  ellipsis |-> TRUE, sliced |-> TRUE,
                  len |-> SliceLen(len2, SafeguardCut) + EllipsisLen]
            ELSE [parts |-> parts2, shown |-> TextLen(Prefix(desc_content, max_desc_len)),
                  ellipsis |-> TRUE, sliced |-> FALSE, len |-> len2]

----------------------------------------------------------------------------
(* SpecCaption: format_event_caption called once on an event, as the demo   *)
(* of formatters.py does                                                    *)

CaptionTitles == {<<>>, Plain(20), Plain(10) \o Amps(2), Plain(1100)}
CaptionDescriptions ==
    {<<>>, Plain(200), Plain(892), Plain(893), Plain(2000), Amps(300),
     Plain(900) \o Quotes(100)}
CaptionSummaries == {<<>>, Plain(400), Plain(1000) \o Amps(50)}
CaptionSources == {<<>>, Plain(30), Plain(40) \o Amps(3), Plain(1000)}

CaptionEvents ==
    [ date : {NoDate, <<5, 18>>}, title : CaptionTitles,
      description : CaptionDescriptions, summary_en : CaptionSummaries,
      source_url : CaptionSources ]

\* caption = format_event_caption(sample_event)
CallFormatEventCaption(event) ==
    /\ cap.op = "none"
    /\ cap' = [op |-> "format", event |-> <<event>>,
               caption |-> <<FormatEventCaption(event)>>]
    /\ UNCHANGED <<file, lock, pc, op, data, seen, calls, hist, log, build, pipe, cmd, listing, detail>>

NextCaption == \E event \in CaptionEvents : CallFormatEventCaption(event)

SpecCaption == Init /\ [][NextCaption]_vars

----------------------------------------------------------------------------
(* events_command (src/telegram_bot/handlers.py): the query, the selection  *)
(* of at most two events per source, and the sends                          *)

PerSourceCap == 2

\* urlparse raised ValueError ("Invalid IPv6 URL")
UrlError == "<ValueError>"

\* urlparse(url).netloc on the addresses of the model: the text between
\* "//" and the next "/", "" for a text without "//"
Netloc(url) ==
    CASE url = "https://a.it/e"      -> "a.it"
      [] url = "https://www.a.it/e"  -> "www.a.it"
      [] url = "https://www.b.it/e"  -> "www.b.it"
      [] url = "https://awww.b.it/e" -> "awww.b.it"
      [] url = "https://ab.it/e"     -> "ab.it"
      [] url = "http://[bad/e"       -> UrlError
      [] OTHER                       -> ""

\* domain.replace("www.", ""): every occurrence is taken out
StripWww(domain) ==
    CASE domain = "www.a.it"  -> "a.it"
      [] domain = "www.b.it"  -> "b.it"
      [] domain = "awww.b.it" -> "ab.it"
      [] OTHER                -> domain

\* The key of events_by_source an event goes under: "unknown" for a falsy
\* source_url and for one urlparse raises on
DomainOf(event) ==
    IF Truthy(event.source_url)
    THEN IF Netloc(event.source_url) = UrlError THEN "unknown"
         ELSE StripWww(Netloc(event.source_url))
    ELSE "unknown"

DomainOfEach(events) == [i \in 1..Len(events) |-> DomainOf(events[i])]

SourcesPerEvent(events) == DomainOfEach(events)

\* The keys of events_by_source, in the order a dict keeps: that of the first
\* event of each
RECURSIVE Sources(_)
Sources(events) ==
    IF events = <<>> THEN <<>>
    ELSE LET before == Sources(SubSeq(events, 1, Len(events) - 1))
             domain == DomainOf(events[Len(events)])
         IN  IF domain \in Range(before) THEN before ELSE Append(before, domain)

\* events_by_source[domain]
SourceEvents(events, domain) == SelectSeq(events, LAMBDA e : DomainOf(e) = domain)

\* datetime.min, the sort key of an undated event
DatetimeMin == <<0 - 700000, 0>>

\* key=lambda x: x.date if x.date else datetime.min
SortKey(event) == IF event.date # NoDate THEN event.date ELSE DatetimeMin

\* One step of the sort: event goes before the first element with a smaller
\* key, so that elements with equal keys keep their order
RECURSIVE InsertByDateDesc(_, _)
InsertByDateDesc(sorted, event) ==
    IF sorted = <<>> THEN <<event>>
    ELSE IF PyLT(SortKey(Head(sorted)), SortKey(event)) = "True"
         THEN <<event>> \o sorted
         ELSE <<Head(sorted)>> \o InsertByDateDesc(Tail(sorted), event)

SortAsIs(list) == list

\* list.sort(key=..., reverse=True): descending by date, stable
RECURSIVE SortByDateDesc(_)
SortByDateDesc(list) ==
    IF list = <<>> THEN <<>>
    ELSE InsertByDateDesc(SortByDateDesc(SubSeq(list, 1, Len(list) - 1)), list[Len(list)])

TopAll(list) == list

\* source_events[:2]
Top(list) == SubSeq(list, 1, IF Len(list) < PerSourceCap THEN Len(list) ELSE PerSourceCap)

\* The loop over events_by_source.items(): final_events before its last sort
RECURSIVE ExtendFromSources(_, _)
ExtendFromSources(sources, events) ==
    IF sources = <<>> THEN <<>>
    ELSE Top(SortByDateDesc(SourceEvents(events, Head(sources))))
         \o ExtendFromSources(Tail(sources), events)

SelectForDeliveryBySource(events) == ExtendFromSources(Sources(events), events)

\* Lines 66-91: final_events for the events the query returned
SelectForDelivery(events) == SortByDateDesc(ExtendFromSources(Sources(events), events))

\* The characters of the strings of the model, for format_event_caption
Chars(s) ==
    CASE s = "Festa"              -> Plain(5)
      [] s = "Musica"             -> Plain(6)
      [] s = "A music festival."  -> Plain(17)
      [] s = "https://a.it/e"     -> Plain(14)
      [] s = "https://www.a.it/e" -> Plain(18)
      [] s = "https://www.b.it/e" -> Plain(18)
      [] OTHER                    -> <<>>

\* The event as format_event_caption reads it
AsText(event) ==
    [ date        |-> event.date,
      title       |-> Chars(event.title),
      description |-> Chars(event.description),
      summary_en  |-> Chars(event.summary_en),
      source_url  |-> Chars(event.source_url) ]

----------------------------------------------------------------------------
(* SpecBot: the crawl stores upcoming events and a chat asks for them.  The *)
(* sends of events_command neither read nor write the store, so the crawl's *)
(* saves are taken between requests; a request may come in the middle of a  *)
(* rewrite.                                                                 *)

UpcomingIds == 1..MaxUpcoming

\* The Event object with id 100 + i: dated today or later, most from a.it
\* (under two host names), every fourth from b.it
UpcomingEvent(i) ==
    [ id          |-> 100 + i,
      title       |-> "Festa",
      description |-> "Musica",
      date        |-> <<(2 * i) % 5, 18>>,
      image_url   |-> IF i % 2 = 0 THEN "http://img" ELSE None,
      source_url  |-> CASE i % 4 = 0 -> "https://www.b.it/e"
                        [] i % 4 = 2 -> "https://www.a.it/e"
                        [] OTHER     -> "https://a.it/e",
      event_type  |-> "Unknown",
      summary_en  |-> IF i % 3 = 0 THEN None ELSE "A music festival.",
      created_at  |-> <<0, 9>> ]

UpcomingBatches == SeqsUpTo({UpcomingEvent(i) : i \in UpcomingIds}, MaxBatch)

\* The thread of the bot's event loop
Bot == "b1"

\* process_item's save_events, between two requests
CrawlSaves(new_events) ==
    /\ cmd.stage = "idle"
    /\ SaveEvents(Crawler, new_events)
    /\ UNCHANGED <<calls, hist, log, build, pipe, cmd, cap, listing, detail>>

\* The message events_command sends in place of events: "An error occurred
\* while fetching events." from the outer except clause when the query raised,
\* "No upcoming events found right now." when it found nothing, and the
\* former again when the send of the latter raised
NoticeFor(exc, ok) ==
    IF exc # None THEN "error" ELSE IF ok THEN "no_events" ELSE "error"

\* events_command up to its first send: get_events with min_date today; a
\* message and the return when the query raises or finds nothing; else the
\* grouping, the two per source and the sort
EventsCommand ==
    /\ cmd.stage = "idle"
    /\ GetEvents(Bot, DeliveryFilters)
    /\ LET events == GetEventsReturn(file, DeliveryFilters) IN
       IF events.exc # None \/ events.value = <<>>
       THEN \E ok \in BOOLEAN :
               cmd' = [NoCmd EXCEPT !.stage = "done", !.notice = NoticeFor(events.exc, ok)]
       ELSE cmd' = [stage |-> "sending", events |-> events.value,
                    final |-> SelectForDelivery(events.value), pos |-> 1, sends |-> <<>>,
                    notice |-> "none"]
    /\ UNCHANGED <<calls, hist, log, build, pipe, cap, listing, detail>>

NextPosAbort(pos, last, ok) == IF ok THEN pos + 1 ELSE last + 1

\* Where the loop over final_events goes after the event at pos, whether its
\* send went through or raised: to the next event
NextPos(pos, last, ok) == pos + 1

\* One turn of the loop over final_events: the caption, and if there is one,
\* send_photo or send_message, which goes through (ok) or raises
SendUnit(ok) ==
    /\ cmd.stage = "sending"
    /\ cmd.pos <= Len(cmd.final)
    /\ LET event == cmd.final[cmd.pos]
           caption == FormatEventCaption(AsText(event))
       IN  IF caption.len > 0
           THEN cmd' = [cmd EXCEPT
                   !.sends = Append(@, [id |-> event.id, ok |-> ok,
                                        photo |-> Truthy(event.image_url)]),
                   !.pos = NextPos(cmd.pos, Len(cmd.final), ok)]
           ELSE cmd' = [cmd EXCEPT !.pos = @ + 1]
    /\ UNCHANGED <<file, lock, pc, op, data, seen, calls, hist, log, build, pipe, cap, listing, detail>>

\* The loop is over and events_command returns: nothing follows the loop
EventsCommandReturn ==
    /\ cmd.stage = "sending"
    /\ cmd.pos > Len(cmd.final)
    /\ cmd' = [cmd EXCEPT !.stage = "done"]
    /\ UNCHANGED <<file, lock, pc, op, data, seen, calls, hist, log, build, pipe, cap, listing, detail>>

\* The application takes the next /events update
NextUpdate ==
    /\ cmd.stage = "done"
    /\ cmd' = NoCmd
    /\ UNCHANGED <<file, lock, pc, op, data, seen, calls, hist, log, build, pipe, cap, listing, detail>>

NextBot ==
    \/ \E b \in UpcomingBatches : CrawlSaves(b)
    \/ WriteOpen(Crawler) \/ WriteFlush(Crawler) \/ WriteClose(Crawler)
    \/ EventsCommand
    \/ \E ok \in BOOLEAN : SendUnit(ok)
    \/ EventsCommandReturn
    \/ NextUpdate

SpecBot == Init /\ [][NextBot]_vars

(* SpecGroup: events_command on a store of two upcoming events whose         *)
(* source_url is any of the texts an Event may carry                        *)

\* Addresses of crawled pages, with and without "www." at the front of the
\* host or inside it; what process_event stores for an item without the key
\* ("Unknown Source"); the default of the Event dataclass (""); null; and a
\* text urlparse raises on
GroupingUrls ==
    {"https://a.it/e", "https://www.a.it/e", "https://www.b.it/e",
     "https://awww.b.it/e", "https://ab.it/e",
     "Unknown Source", "", None, "http://[bad/e"}

\* The stored form of the upcoming event i with the source_url
GroupingRecord(i, url) == ToDict([UpcomingEvent(i) EXCEPT !.source_url = url])

InitGroup ==
    /\ \E u, v \in GroupingUrls :
          file = [kind |-> "list", data |-> <<GroupingRecord(1, u), GroupingRecord(2, v)>>]
    /\ lock = [s \in Stores |-> NoThread]
    /\ pc = [t \in Threads |-> "idle"]
    /\ op = [t \in Threads |-> "none"]
    /\ data = [t \in Threads |-> <<>>]
    /\ seen = [t \in Threads |-> "none"]
    /\ calls = 0
    /\ hist = NoHist
    /\ log = NoCall
    /\ build = NoBuild
    /\ pipe = NoPipe
    /\ cmd = NoCmd
    /\ cap = NoCap
    /\ listing = NoListing
    /\ detail = NoDetail

NextGroup ==
    \/ EventsCommand
    \/ \E ok \in BOOLEAN : SendUnit(ok)
    \/ EventsCommandReturn
    \/ NextUpdate

SpecGroup == InitGroup /\ [][NextGroup]_vars

----------------------------------------------------------------------------
(* parse_event_details of the four spiders: the structured-data blocks of a *)
(* detail page (JSON-LD scripts) and the markup selectors                   *)

\* What json.loads and the search for an object make of a block: text that
\* does not decode; JSON with no Article, Event or NewsArticle object; such
\* an object
BlockKinds == {"malformed", "unsuitable", "event"}

\* A detail page: its address, its JSON-LD blocks in document order, and
\* whether the markup selectors match
DetailPages ==
    {[url |-> u, blocks |-> b, markup |-> m] :
        u \in PageUrls, b \in SeqsUpTo(BlockKinds, MaxBlocks), m \in BOOLEAN}

Spiders == {"salernotoday", "ilportico", "amalfinews", "ilvescovado"}

\* "if json_data:" holds after the block
Usable(kind) == kind = "event"

\* The data dict built from the JSON-LD object
JsonLdBag(pg) ==
    [ title       |-> " Festa ",
      description |-> " Musica ",
      date_text   |-> " 25 maggio ore 18 ",
      image_url   |-> None,
      source_url  |-> pg.url ]

CssBagUrlTitle(pg) ==
    [ title       |-> IF pg.markup THEN "Festa" ELSE pg.url,
      description |-> IF pg.markup THEN "Musica" ELSE None,
      date_text   |-> IF pg.markup THEN "25 maggio ore 18" ELSE None,
      image_url   |-> None,
      source_url  |-> pg.url ]

\* The data dict built from the CSS selectors: None where one matches nothing
CssBag(pg) ==
    [ title       |-> IF pg.markup THEN "Festa" ELSE None,
      description |-> IF pg.markup THEN "Musica" ELSE None,
      date_text   |-> IF pg.markup THEN "25 maggio ore 18" ELSE None,
      image_url   |-> None,
      source_url  |-> pg.url ]

\* The index of the first block with a suitable object, 0 if there is none
RECURSIVE FirstUsable(_, _)
FirstUsable(blocks, i) ==
    IF i > Len(blocks) THEN 0
    ELSE IF Usable(blocks[i]) THEN i ELSE FirstUsable(blocks, i + 1)

\* What parse_event_details did: how many blocks it gave to json.loads,
\* whether it ran the selectors, and the data dict it came to (none is <<>>)
Trace(decoded, fallback, bag) == [decoded |-> decoded, fallback |-> fallback, data |-> bag]

\* SalernoTodaySpider: every block in turn (getall), on to the next after a
\* JSONDecodeError or an unsuitable object; the selectors if none is found
SalernoTodayDetails(pg) ==
    LET k == FirstUsable(pg.blocks, 1) IN
    IF k # 0 THEN Trace(k, FALSE, <<JsonLdBag(pg)>>)
    ELSE Trace(Len(pg.blocks), TRUE, <<CssBag(pg)>>)

\* IlPorticoSpider: the first block only (get); the selectors if there is
\* none, if it does not decode or if it holds no suitable object
IlPorticoDetails(pg) ==
    IF pg.blocks = <<>> THEN Trace(0, TRUE, <<CssBag(pg)>>)
    ELSE IF Usable(pg.blocks[1]) THEN Trace(1, FALSE, <<JsonLdBag(pg)>>)
    ELSE Trace(1, TRUE, <<CssBag(pg)>>)

\* AmalfiNewsSpider: the first block only (get), and return when there is
\* none, when it does not decode or when it holds no suitable object
AmalfiNewsDetails(pg) ==
    IF pg.blocks = <<>> THEN Trace(0, FALSE, <<>>)
    ELSE IF Usable(pg.blocks[1]) THEN Trace(1, FALSE, <<JsonLdBag(pg)>>)
    ELSE Trace(1, FALSE, <<>>)

\* IlVescovadoSpider: the selectors only
IlVescovadoDetails(pg) == Trace(0, TRUE, <<CssBag(pg)>>)

DetailsOf(spider, pg) ==
    CASE spider = "salernotoday" -> SalernoTodayDetails(pg)
      [] spider = "ilportico"    -> IlPorticoDetails(pg)
      [] spider = "amalfinews"   -> AmalfiNewsDetails(pg)
      [] OTHER                   -> IlVescovadoDetails(pg)

\* Neither tier has anything for the page: no block holds a suitable object
\* and the selectors match nothing
BothTiersFail(pg) == FirstUsable(pg.blocks, 1) = 0 /\ ~pg.markup

----------------------------------------------------------------------------
(* SpecCrawl: a spider's detail pages, each address fetched once (Scrapy's  *)
(* duplicate filter), go through parse_event_details, process_item and      *)
(* save_events; between two pages a chat asks for the events                *)

\* parse_event_details on a fetched page: the tiers, create_event_item on
\* the data dict if there is one, and the item yielded if there is one
ParseDetailPage(spider, pg) ==
    /\ pipe.stage \in {"open", "done"}
    /\ pc[Crawler] = "idle"
    /\ cmd.stage = "idle"
    /\ pg.url \notin detail.visited
    /\ LET trace == DetailsOf(spider, pg)
           item == IF trace.data = <<>> THEN <<>> ELSE CreateEventItem(trace.data[1])
       IN  /\ detail' = [visited |-> detail.visited \cup {pg.url},
                         failed  |-> detail.failed \cup
                                       (IF BothTiersFail(pg) THEN {pg.url} ELSE {}),
                         page    |-> <<[spider |-> spider, url |-> pg.url,
                                        blocks |-> pg.blocks, markup |-> pg.markup]>>,
                         trace   |-> <<trace>>]
           /\ pipe' = [pipe EXCEPT !.stage = IF item # <<>> THEN "item" ELSE "open",
                                   !.data = trace.data,
                                   !.item = item,
                                   !.reply = "none",
                                   !.out = Rejected]
    /\ UNCHANGED <<file, lock, pc, op, data, seen, calls, hist, log, build, cmd, cap, listing>>

\* /events between two pages of the crawl
ChatAsks ==
    /\ pipe.stage \in {"open", "done"}
    /\ pc[Crawler] = "idle"
    /\ EventsCommand

NextCrawl ==
    \/ \E client \in BOOLEAN : OpenSpider(client)
    \/ \E spider \in Spiders, pg \in DetailPages : ParseDetailPage(spider, pg)
    \/ \E reply \in ApiReplies : ProcessItem(reply)
    \/ WriteOpen(Crawler) \/ WriteFlush(Crawler) \/ WriteClose(Crawler)
    \/ ChatAsks
    \/ \E ok \in BOOLEAN : SendUnit(ok)
    \/ EventsCommandReturn
    \/ NextUpdate

SpecCrawl == Init /\ [][NextCrawl]_vars

----------------------------------------------------------------------------
(* The list pages: parse of IlVescovadoSpider, IlPorticoSpider and          *)
(* AmalfiNewsSpider, the three spiders with MAX_ITEMS_PER_URL.  A parse     *)
(* callback is one step: the callbacks of one spider run on one thread, and *)
(* a followed page is requested by the last yield of the page before it.    *)

CappedSpiders == {"ilvescovado", "ilportico", "amalfinews"}

\* start_urls, by position: two for ilvescovado, one for the others
StartUrls(spider) == IF spider = "ilvescovado" THEN {1, 2} ELSE {1}

\* How many event links a list page may hold
LinkChoices == {0, 4, 8, 12, MaxItemsPerUrl, MaxItemsPerUrl + 5}

CountAtEntryShared(spider, first, count) == count

\* The counter a parse callback starts from: the local items_yielded = 0 of
\* ilvescovado; self._items_scraped_count, which ilportico sets to 0 when
\* response.url is a start URL and amalfinews never resets
CountAtEntry(spider, first, count) ==
    CASE spider = "ilvescovado" -> 0
      [] spider = "ilportico"   -> IF first THEN 0 ELSE count
      [] OTHER                  -> count

\* The loop over the links: a request per link until the counter is at
\* MAX_ITEMS_PER_URL
YieldsOnPage(links, entry) ==
    IF entry >= MaxItemsPerUrl THEN 0
    ELSE IF links < MaxItemsPerUrl - entry THEN links ELSE MaxItemsPerUrl - entry

\* The pagination link is followed: never by ilvescovado; by the others when
\* the page had links, the counter is below the cap and there is a link
FollowsNext(spider, links, after, next) ==
    spider # "ilvescovado" /\ links > 0 /\ after < MaxItemsPerUrl /\ next

----------------------------------------------------------------------------
(* SpecList: a spider is started, its start pages come back in any order,   *)
(* and followed pages after the page that linked to them                    *)

\* The crawl of a spider begins: a new instance, its start requests out
StartCrawl(spider) ==
    /\ listing.queue = {}
    /\ listing' = [spider  |-> spider,
                   count   |-> 0,
                   queue   |-> {[start |-> s, depth |-> 1] : s \in StartUrls(spider)},
                   yielded |-> [s \in StartUrls(spider) |-> 0],
                   offered |-> [s \in StartUrls(spider) |-> 0]]
    /\ UNCHANGED <<file, lock, pc, op, data, seen, calls, hist, log, build, pipe, cmd, cap, detail>>

\* parse on the response of a waiting list page with that many event links
\* and with or without a link to a next page; count is the counter as the
\* callback leaves it
ParseListPage(pg, links, next) ==
    /\ pg \in listing.queue
    /\ LET spider == listing.spider
           entry == CountAtEntry(spider, pg.depth = 1, listing.count)
           n == YieldsOnPage(links, entry)
           follow == FollowsNext(spider, links, entry + n, next) /\ pg.depth < MaxPages
       IN  listing' = [listing EXCEPT
              !.count = entry + n,
              !.queue = (@ \ {pg}) \cup
                        (IF follow THEN {[start |-> pg.start, depth |-> pg.depth + 1]} ELSE {}),
              !.yielded[pg.start] = @ + n,
              !.offered[pg.start] = @ + links]
    /\ UNCHANGED <<file, lock, pc, op, data, seen, calls, hist, log, build, pipe, cmd, cap, detail>>

NextList ==
    \/ \E spider \in CappedSpiders : StartCrawl(spider)
    \/ \E pg \in listing.queue, links \in LinkChoices, next \in BOOLEAN :
          ParseListPage(pg, links, next)

SpecList == Init /\ [][NextList]_vars

----------------------------------------------------------------------------
(* Properties of Spec *)

AllIdle == \A t \in Threads : pc[t] = "idle"

\* C1: two save_events calls with disjoint ids, made by two threads of one
\* store and nothing else called: once both have returned, the document
\* holds the records of both.
C1_ParallelSavesKeepBoth ==
    \A t, u \in PipelineThreads :
        ( /\ t # u
          /\ calls = 2
          /\ ~hist.swept
          /\ AllIdle
          /\ hist.saved[t] # {}
          /\ hist.saved[u] # {}
          /\ hist.saved[t] \cap hist.saved[u] = {} )
        => (hist.saved[t] \cup hist.saved[u]) \subseteq IdsOf(file.data)

\* C3: no two records of the document, nor of a list about to be written,
\* carry the same id, whatever the interleaving of saves and sweeps.
C3_IdsUnique ==
    /\ Cardinality(IdsOf(file.data)) = Len(file.data)
    /\ \A t \in Threads : Cardinality(IdsOf(data[t])) = Len(data[t])

\* C3's case: a list with a repeated id has been passed, and two threads are
\* in the middle of saving the same id, one of them rewriting the document.
C3_Witness ==
    /\ hist.repeated
    /\ \E t, u \in PipelineThreads :
          /\ pc[t] = "writing"
          /\ pc[u] = "write"
          /\ hist.saved[t] \cap hist.saved[u] # {}
          /\ Len(data[u]) >= 1

\* C4: a rewrite that save_events begins keeps every record of the document
\* it replaces (only the sweep's rewrite may drop a record).
C4_SaveKeepsPersisted ==
    [][ \A t \in Threads :
          (pc[t] = "write" /\ pc'[t] = "writing" /\ op[t] = "save")
          => \A i \in 1..Len(file.data) : file.data[i] \in Range(data[t]) ]_vars

\* C10: no load, by any thread of either store instance, reads the document
\* while a rewrite of it is under way.
C10_NoReadDuringRewrite ==
    \A t \in Threads : seen[t] \in {"none", "list"}

----------------------------------------------------------------------------
(* Properties of SpecSeq *)

\* The latest call was o and has returned
Returned(o) == log.op = o /\ pc[Caller] = "idle"

BatchIds(new_events) == {new_events[i].id : i \in 1..Len(new_events)}

\* C2: save_events([e]) right after save_events([e]) leaves the document as
\* it was, and does not rewrite it.
C2_SecondSaveChangesNothing ==
    ( /\ Returned("save")
      /\ Len(log.arg.new_events) = 1
      /\ log.prev_save = log.arg.new_events )
    => (file = log.before /\ ~log.wrote)

\* C2's case: a store of two or more records, one of them e, after the second
\* of two successive save_events([e]).
C2_Witness ==
    /\ Returned("save")
    /\ Len(log.arg.new_events) = 1
    /\ log.prev_save = log.arg.new_events
    /\ Len(file.data) >= 2
    /\ log.arg.new_events[1].id \in IdsOf(file.data)

\* What the sweep is to remove: a record whose date is present and whose day
\* is before the day of now - days_old
IsOld(d, days_old) ==
    /\ d.date # NoDate
    /\ FromIsoFormat(d.date)[1] < MinusDays(Now, days_old)[1]

\* C5: remove_old_events returns normally and leaves the document as it was
\* less its old dated records.
C5_RemovesExactlyOld ==
    Returned("remove")
    => /\ log.ret.exc = None
       /\ file.data = SelectSeq(log.before.data, LAMBDA d : ~IsOld(d, log.arg.days_old))

\* C6: with the threshold of 30 days, a record dated 30 days before now is
\* kept and a record dated 31 days before now is gone.
C6_EvictionBoundary ==
    (Returned("remove") /\ log.arg.days_old = DefaultDaysOld)
    => \A i \in 1..Len(log.before.data) :
          LET d == log.before.data[i] IN
          /\ (d.date # NoDate /\ FromIsoFormat(d.date)[1] = Now[1] - DefaultDaysOld)
                => d \in Range(file.data)
          /\ (d.date # NoDate /\ FromIsoFormat(d.date)[1] = Now[1] - DefaultDaysOld - 1)
                => d \notin Range(file.data)

\* C7: every undated record of the document is still in it, as it was, when
\* remove_old_events has ended.
C7_UndatedKept ==
    Returned("remove")
    => \A i \in 1..Len(log.before.data) :
          log.before.data[i].date = NoDate => log.before.data[i] \in Range(file.data)

\* C7's case: a sweep with threshold 0 has returned on a store that holds an
\* undated record.
C7_Witness ==
    /\ Returned("remove")
    /\ log.ret.exc = None
    /\ log.arg.days_old = 0
    /\ \E i \in 1..Len(log.before.data) : log.before.data[i].date = NoDate

\* The predicates of a query, as the store's contract words them; a bound or
\* a category counts as given when it is present and not empty
SatisfiesFilters(e, filters) ==
    /\ Truthy(filters.event_type) => e.event_type = filters.event_type
    /\ filters.min_date # NoDate => (e.date # NoDate /\ e.date[1] >= filters.min_date[1])
    /\ filters.max_date # NoDate => (e.date # NoDate /\ e.date[1] <= filters.max_date[1])

\* C8: get_events returns exactly the stored records that satisfy the given
\* predicates; an undated record fails every date bound.
C8_QueryReturnsMatches ==
    Returned("get")
    => /\ log.ret.exc = None
       /\ log.ret.value = SelectSeq(FromDicts(log.before.data),
                                    LAMBDA e : SatisfiesFilters(e, log.arg.filters))

\* Support for C8: with bounds that are dates, as events_command passes them,
\* get_events returns exactly the matching records.
QueryWithDateBounds ==
    ( /\ Returned("get")
      /\ Len(log.arg.filters.min_date) <= 1
      /\ Len(log.arg.filters.max_date) <= 1 )
    => /\ log.ret.exc = None
       /\ log.ret.value = SelectSeq(FromDicts(log.before.data),
                                    LAMBDA e : SatisfiesFilters(e, log.arg.filters))

\* C9: save_events of an empty list, or of a list whose ids are all in the
\* document, returns without rewriting the document.
C9_NoOpSaveWritesNothing ==
    ( /\ log.op = "save"
      /\ BatchIds(log.arg.new_events) \subseteq IdsOf(log.before.data) )
    => (pc[Caller] = "idle" /\ ~log.wrote /\ file = log.before)

\* C9's case: save_events has returned from a list of two different events
\* that were both stored already.
C9_Witness ==
    /\ Returned("save")
    /\ Len(log.arg.new_events) = 2
    /\ log.arg.new_events[1] # log.arg.new_events[2]
    /\ BatchIds(log.arg.new_events) \subseteq IdsOf(log.before.data)

----------------------------------------------------------------------------
(* Properties of SpecBuild *)

\* A field of a raw candidate is absent, or empty once trimmed
AbsentOrBlank(value) == value \in {Missing, None} \/ Strip(value) = ""

\* C11: process_event returns no record for a raw candidate whose title or
\* whose source address is absent or empty after trimming.
C11_MissingFieldRejected ==
    ( /\ build.op = "process_event"
      /\ \/ AbsentOrBlank(build.raw[1].title)
         \/ AbsentOrBlank(build.raw[1].source_url) )
    => build.ret = <<>>

\* Support for C11: the title's half of it holds; only the source address
\* goes unchecked.
MissingTitleRejected ==
    (build.op = "process_event" /\ AbsentOrBlank(build.raw[1].title))
    => build.ret = <<>>

EventFields ==
    {"id", "title", "description", "date", "image_url", "source_url",
     "event_type", "summary_en", "created_at"}

DatedRoundTrip ==
    /\ build.op = "from_dict"
    /\ build.ret[1].date = <<5, 18>>
    /\ build.back = build.ret

----------------------------------------------------------------------------
(* Properties of SpecPipe *)

\* The stored objects: those of the document and those about to be written
StoredObjects == Range(file.data) \cup Range(data[Crawler])

\* C12: every record the pipeline has stored has a non-empty title, and as
\* source_url the address of a page, the page it came from, never an empty
\* text or a placeholder; a field bag that lacks the title or the address
\* gives no item, so nothing of it is processed or stored.
C12_StoredRecordsComplete ==
    /\ \A d \in StoredObjects :
          /\ ~AbsentOrBlank(d.title)
          /\ d.source_url \in PageUrls
    /\ (pipe.stage = "done" /\ pipe.out.ret # <<>>)
          => /\ pipe.out.ret[1].source_url = pipe.data[1].source_url
             /\ pipe.out.ret[1].title = Strip(pipe.data[1].title)
    /\ ( /\ pipe.data # <<>>
         /\ \/ AbsentOrBlank(pipe.data[1].title)
            \/ AbsentOrBlank(pipe.data[1].source_url) )
          => (pipe.item = <<>> /\ pipe.stage = "open" /\ pc[Crawler] = "idle")

\* C12's case: the document holds a record, and the page parsed after it,
\* which has a title and no address, has given no item.
C12_Witness ==
    /\ Len(file.data) >= 1
    /\ pipe.stage = "open"
    /\ pipe.data # <<>>
    /\ pipe.data[1].title = " Festa "
    /\ pipe.data[1].source_url = " "
    /\ pipe.item = <<>>

\* The summary call was made and failed
SummaryCallFailed ==
    pipe.client /\ pipe.reply = ApiError /\ pipe.item[1].description # ""

\* C18: when the summary call fails, or there is no enrichment client,
\* process_event returns a record with no summary_en and with the trimmed
\* original description, and process_item passes that record to save_events.
C18_SummaryDegrades ==
    (pipe.stage = "done" /\ (SummaryCallFailed \/ ~pipe.client))
    => /\ pipe.out.ret # <<>>
       /\ pipe.out.ret[1].summary_en = None
       /\ pipe.out.ret[1].description = pipe.item[1].description
       /\ pipe.data[1].description # None
             => pipe.out.ret[1].description = Strip(pipe.data[1].description)
       /\ ToDict(pipe.out.ret[1]) \in StoredObjects

\* C18's case: the summary call for a page with a description has failed,
\* and the record is in the document.
C18_Witness ==
    /\ pipe.stage = "done"
    /\ SummaryCallFailed
    /\ pipe.out.ret # <<>>
    /\ pipe.out.ret[1].description = "Musica"
    /\ pipe.out.ret[1].summary_en = None
    /\ ToDict(pipe.out.ret[1]) \in Range(file.data)

ClassificationUnavailable ==
    /\ pipe.stage = "done"
    /\ pipe.out.detected = NotCalled
    /\ pipe.out.ret # <<>>
    /\ pipe.out.ret[1].event_type = "Unknown"

----------------------------------------------------------------------------
(* Properties of SpecCaption *)

\* The length of the caption before any truncation
UntruncatedLen == JoinLen(CaptionParts(cap.event[1]))

\* format_event_caption has returned a caption for an event whose untruncated
\* caption is over the limit
OverLimit ==
    /\ cap.op = "format"
    /\ TitleStrLen(cap.event[1]) > 0
    /\ UntruncatedLen > CaptionLimit

\* Part i of the untruncated caption (1 the date, 2 the title, 4 the source),
\* if there is one, stands complete in the caption returned: it is as long
\* as it was and ends before the point where the caption was sliced, if it was
SegmentKept(i) ==
    CaptionParts(cap.event[1])[i] > 0
    => /\ cap.caption[1].parts[i] = CaptionParts(cap.event[1])[i]
       /\ cap.caption[1].sliced
             => JoinLen(SubSeq(cap.caption[1].parts, 1, i)) <= SafeguardCut

\* The caption shows a proper prefix of desc_content and then "..."
DescriptionShortened ==
    /\ cap.caption[1].ellipsis
    /\ cap.caption[1].shown < TextLen(DescContent(cap.event[1]))

\* The date, title and source parts, the separators, and a blockquote that
\* holds nothing but "..." fit into the limit
RestFits ==
    LET parts == CaptionParts(cap.event[1]) IN
    JoinLen([parts EXCEPT ![3] = DescWrap + EllipsisLen]) <= CaptionLimit

\* C15: the caption format_event_caption returns is at most 1024 characters
\* long, whatever the lengths of the texts and whatever html.escape adds.
C15_CaptionWithinLimit ==
    cap.op = "format" => cap.caption[1].len <= CaptionLimit

\* C15's case: a title of 1100 characters, so that the caption is over the
\* limit even with the description cut down to "...".
C15_Witness ==
    /\ OverLimit
    /\ cap.event[1].title = Plain(1100)
    /\ cap.caption[1].sliced
    /\ cap.caption[1].len = CaptionLimit

\* A caption of exactly 1024 characters is returned as it is, and one of 1025
\* is truncated.
AtTheLimit ==
    /\ cap.op = "format"
    /\ UntruncatedLen = CaptionLimit
    /\ ~cap.caption[1].ellipsis

JustOverTheLimit ==
    /\ OverLimit
    /\ UntruncatedLen = CaptionLimit + 1
    /\ cap.caption[1].ellipsis
    /\ ~cap.caption[1].sliced

\* C16 as stated: whenever the untruncated caption is over 1024 characters,
\* the date, title and source parts stand complete in the caption returned
\* and the description is shortened and ends in "...".
C16_OnlyDescriptionTruncated ==
    OverLimit
    => /\ SegmentKept(1) /\ SegmentKept(2) /\ SegmentKept(4)
       /\ DescriptionShortened

\* C16 amended: the same, and the caption is not sliced, whenever the other
\* parts leave room for at least the "..." of the description.
C16_TruncationKeepsOtherSegments ==
    (OverLimit /\ RestFits)
    => /\ SegmentKept(1) /\ SegmentKept(2) /\ SegmentKept(4)
       /\ DescriptionShortened
       /\ ~cap.caption[1].sliced
       /\ cap.caption[1].len <= CaptionLimit

\* C16's case: a description of 2000 characters with a date, a title and a
\* source address that both hold "&", truncated.
C16_Witness ==
    /\ OverLimit /\ RestFits
    /\ cap.event[1].date # NoDate
    /\ cap.event[1].title = Plain(10) \o Amps(2)
    /\ cap.event[1].source_url = Plain(40) \o Amps(3)
    /\ cap.event[1].summary_en = <<>>
    /\ cap.event[1].description = Plain(2000)
    /\ cap.caption[1].ellipsis
    /\ cap.caption[1].shown > 0

----------------------------------------------------------------------------
(* Properties of SpecBot *)

Selecting == cmd.stage = "sending"

\* How many of the events are of the source
CountOf(events, domain) == Len(SourceEvents(events, domain))

\* C13: of the events the query returned, the selection holds at most two of
\* each source and at least one of every source that has any, so it is never
\* longer than twice the number of sources
C13_TwoPerSourceEveryGroup ==
    Selecting =>
        LET groups == Range(DomainOfEach(cmd.events)) IN
        /\ Len(cmd.final) <= PerSourceCap * Cardinality(groups)
        /\ \A g \in groups :
              /\ CountOf(cmd.final, g) >= 1
              /\ CountOf(cmd.final, g) <= PerSourceCap
        /\ Range(cmd.final) \subseteq Range(cmd.events)

\* C13 witness: three events of a.it and one of b.it were returned; two of
\* a.it and the one of b.it are selected
C13_Witness ==
    /\ Selecting
    /\ CountOf(cmd.events, "a.it") = 3
    /\ CountOf(cmd.events, "b.it") = 1
    /\ CountOf(cmd.final, "a.it") = 2
    /\ CountOf(cmd.final, "b.it") = 1

\* The document never holds two records with one id, with one writer or with
\* two that interleave (holds under Spec as well)
StoredIdsDistinct ==
    \A i, j \in 1..Len(file.data) : file.data[i].id = file.data[j].id => i = j

\* C14: within one run of events_command no event is sent twice: the ids of
\* the sends, and of the selection they follow, are pairwise distinct
C14_NoEventSentTwice ==
    Selecting =>
        /\ \A i, j \in 1..Len(cmd.sends) : cmd.sends[i].id = cmd.sends[j].id => i = j
        /\ \A i, j \in 1..Len(cmd.final) : cmd.final[i].id = cmd.final[j].id => i = j

\* C14 witness: the query returned three events and one run sent three
\* units, each of another event
C14_Witness ==
    /\ Selecting
    /\ Len(cmd.sends) = 3
    /\ Cardinality({cmd.sends[i].id : i \in 1..Len(cmd.sends)}) = 3
    /\ Len(cmd.events) = 3

\* The ids of the sends so far, in order
SentIds == [i \in 1..Len(cmd.sends) |-> cmd.sends[i].id]

\* The ids of the first k selected events, in order
SelectedIds(k) == [i \in 1..k |-> cmd.final[i].id]

\* C20: a send that raises does not end the loop: when the loop is at
\* position pos a send was attempted for every selected event before it, in
\* order, whatever the outcome of the earlier sends
C20_FailedSendDoesNotStopLoop ==
    Selecting =>
        /\ cmd.pos <= Len(cmd.final) + 1
        /\ SentIds = SelectedIds(cmd.pos - 1)

\* C20 witness: the loop is over, the first send raised and the two after it
\* were attempted, one of them going through
C20_Witness ==
    /\ Selecting
    /\ cmd.pos > Len(cmd.final)
    /\ Len(cmd.sends) = 3
    /\ ~cmd.sends[1].ok
    /\ cmd.sends[3].ok

\* Both kinds of send happen in one run
PhotoAndTextSent ==
    /\ Selecting
    /\ \E i, j \in 1..Len(cmd.sends) : cmd.sends[i].photo /\ ~cmd.sends[j].photo

----------------------------------------------------------------------------
(* Properties of SpecRead *)

ReadLogged == log.op \in {"get", "get_by_id"}

\* What the latest read would have returned on the empty collection
OnEmptyCollection ==
    IF log.op = "get" THEN GetEventsReturn(EmptyDocument, log.arg.filters)
    ELSE GetEventByIdReturn(EmptyDocument, log.arg.event_id)

\* C22: a read of a store whose file is absent, empty, not valid JSON, or
\* JSON that is no array, returns what it returns on the empty collection and
\* does not raise
C22_UnreadableStoreReadsAsEmpty ==
    (ReadLogged /\ log.before.kind # "list") =>
        /\ log.ret.exc = None
        /\ log.ret = OnEmptyCollection

\* The four kinds the except clause and the isinstance test do cover
UnreadableButDecodableReadsAsEmpty ==
    (ReadLogged /\ log.before.kind \in {"absent", "empty", "partial", "nonarray"}) =>
        /\ log.ret.exc = None
        /\ log.ret = OnEmptyCollection

\* get_event_by_id has read a document that is no array, and returned None
NonArrayRead ==
    /\ log.op = "get_by_id"
    /\ log.before.kind = "nonarray"
    /\ log.ret = RetNone

----------------------------------------------------------------------------
(* Properties of SpecSweep *)

\* Both calls have been made and have ended
BothEnded ==
    /\ hist.saved[Saver] # {}
    /\ hist.swept
    /\ pc[Saver] = "idle"
    /\ pc[Sweeper] = "idle"

\* The record with the id is not older than the cutoff of the default sweep
NotOlderThanCutoff(i) ==
    DateOfId(i) = NoDate \/ DateOfId(i)[1] >= 0 - DefaultDaysOld

EvictionNeverRewrites == op[Sweeper] # "remove" /\ hist.evicted = {}

----------------------------------------------------------------------------
(* Undated records, under Spec and SpecSeq *)

\* The ids of the undated records of a list of stored objects
UndatedIds(list) == {list[i].id : i \in {j \in 1..Len(list) : list[j].date = NoDate}}

\* What events_command's query returns on the document holds no undated event
DeliveryQueryOmitsUndated ==
    \A e \in Range(GetEventsReturn(file, DeliveryFilters).value) : e.date # NoDate

\* A rewrite that begins writes every undated record the document holds
RewriteKeepsUndated ==
    \A t \in Threads :
        (pc[t] = "write" /\ pc'[t] = "writing") =>
            UndatedIds(file.data) \subseteq IdsOf(data[t])

\* C30: an undated record of the document is not among the events the
\* delivery query returns, and no rewrite, of remove_old_events or of
\* save_events, leaves it out: once in the document it stays
C30_UndatedPermanentAndInvisible ==
    [][DeliveryQueryOmitsUndated /\ RewriteKeepsUndated]_vars

\* The two halves that hold with two threads: the query, and the eviction
UndatedNeverEvicted ==
    [][\A t \in Threads :
          (pc[t] = "write" /\ pc'[t] = "writing" /\ op[t] = "remove") =>
              UndatedIds(file.data) \subseteq IdsOf(data[t])]_vars

\* A save of an undated record has been written
UndatedStored == file.kind = "list" /\ UndatedIds(file.data) # {}

----------------------------------------------------------------------------
(* Further properties of SpecBot *)

Answered == cmd.stage = "done"

\* C21: events_command does not end having sent the user nothing: when no
\* send of an event went through, a message was sent in place of events
C21_NoSilentEmptyResponse ==
    Answered =>
        \/ \E i \in 1..Len(cmd.sends) : cmd.sends[i].ok
        \/ cmd.notice # "none"

\* A query that returned nothing is answered with a message
EmptyQueryAnswered ==
    (Answered /\ cmd.final = <<>>) => cmd.notice # "none"

\* A request ended with "No upcoming events found right now."
NothingAvailableSaid == Answered /\ cmd.notice = "no_events"

\* a > b for two sort keys
Later(a, b) == PyLT(b, a) = "True"

\* The events of the source that the query returned and the selection lacks
Unselected(g) ==
    {e \in Range(SourceEvents(cmd.events, g)) : e \notin Range(cmd.final)}

\* C25: every source has min(2, its number of events) events in the
\* selection, and none of its other events is later than one of them, an
\* event without a date counting as the oldest
C25_TopTwoByRecency ==
    Selecting =>
        \A g \in Range(DomainOfEach(cmd.events)) :
            /\ CountOf(cmd.final, g) =
                  (IF CountOf(cmd.events, g) < PerSourceCap
                   THEN CountOf(cmd.events, g) ELSE PerSourceCap)
            /\ \A e \in Unselected(g) :
                  \A f \in Range(SourceEvents(cmd.final, g)) :
                      ~Later(SortKey(e), SortKey(f))

\* C25 witness: a source with three events, stored oldest first, has its two
\* latest selected, and the source with one event has that one
C25_Witness ==
    /\ Selecting
    /\ CountOf(cmd.events, "a.it") = 3
    /\ CountOf(cmd.events, "b.it") = 1
    /\ Later(SortKey(SourceEvents(cmd.events, "a.it")[3]),
             SortKey(SourceEvents(cmd.events, "a.it")[1]))
    /\ Unselected("a.it") = {SourceEvents(cmd.events, "a.it")[1]}
    /\ Unselected("b.it") = {}

\* The event of the selection that a send is of
EventOfSend(i) ==
    CHOOSE e \in Range(cmd.final) : e.id = cmd.sends[i].id

\* C26: the sends of one request go from the latest event to the earliest,
\* whatever their sources: no send is of a later event than the send before
C26_SentLatestFirst ==
    Selecting =>
        /\ \A i \in 1..Len(cmd.sends) : \E e \in Range(cmd.final) : e.id = cmd.sends[i].id
        /\ \A i, j \in 1..Len(cmd.sends) :
              i < j => ~Later(SortKey(EventOfSend(j)), SortKey(EventOfSend(i)))

\* C26 witness: three sends, the one of b.it between the two of a.it
C26_Witness ==
    /\ Selecting
    /\ Len(cmd.sends) = 3
    /\ DomainOf(EventOfSend(1)) = "a.it"
    /\ DomainOf(EventOfSend(2)) = "b.it"
    /\ DomainOf(EventOfSend(3)) = "a.it"
    /\ Later(SortKey(EventOfSend(1)), SortKey(EventOfSend(3)))

----------------------------------------------------------------------------
(* Properties of SpecGroup *)

NoHost == "<no host>"

\* The host of a source_url, if it is there and has one
HostOf(url) ==
    IF ~Truthy(url) \/ Netloc(url) \in {UrlError, ""} THEN NoHost ELSE Netloc(url)

\* The host without "www." at its front
WithoutLeadingWww(host) ==
    CASE host = "www.a.it" -> "a.it"
      [] host = "www.b.it" -> "b.it"
      [] OTHER             -> host

\* C27: two events are in one group exactly when their source_url hosts are
\* equal once a leading "www." is removed, and the events without a
\* source_url or without a host in it are all in one group
C27_GroupedByHostWithoutWww ==
    Selecting =>
        \A i, j \in 1..Len(cmd.events) :
            (DomainOf(cmd.events[i]) = DomainOf(cmd.events[j]))
            <=> (WithoutLeadingWww(HostOf(cmd.events[i].source_url))
                   = WithoutLeadingWww(HostOf(cmd.events[j].source_url)))

\* The part that holds: one host, with "www." at the front and without, is
\* one group, and hosts with no "www." in them are grouped by equality
WwwAtFrontIsOneGroup ==
    Selecting =>
        \A i, j \in 1..Len(cmd.events) :
            LET u == cmd.events[i].source_url
                v == cmd.events[j].source_url
            IN  {u, v} \subseteq {"https://a.it/e", "https://www.a.it/e",
                                  "https://www.b.it/e", "https://ab.it/e"}
                => ((DomainOf(cmd.events[i]) = DomainOf(cmd.events[j]))
                    <=> (WithoutLeadingWww(HostOf(u)) = WithoutLeadingWww(HostOf(v))))

\* "www.a.it" and "a.it" have been grouped together
WwwGroupedWithBare ==
    /\ Selecting
    /\ cmd.events[1].source_url = "https://www.a.it/e"
    /\ cmd.events[2].source_url = "https://a.it/e"
    /\ Len(cmd.final) = 2

----------------------------------------------------------------------------
(* Properties of SpecCrawl *)

\* The spiders whose parse_event_details reads structured-data blocks
StructuredSpiders == {"salernotoday", "ilportico", "amalfinews"}

Parsed(spiders) == detail.page # <<>> /\ detail.page[1].spider \in spiders

\* After a block that does not decode the next block is tried, and the
\* selectors are run when no block holds a suitable object
FallsThrough ==
    LET pg == detail.page[1]
        trace == detail.trace[1]
    IN  /\ \A i \in 1..Len(pg.blocks) :
              (i <= trace.decoded /\ pg.blocks[i] = "malformed" /\ i < Len(pg.blocks))
                  => trace.decoded >= i + 1
        /\ FirstUsable(pg.blocks, 1) = 0 => trace.fallback

\* C23: in the detail-page extractor of every source, a block that fails to
\* decode does not end the page: the next block is tried if there is one,
\* and when no block yields an object the selectors are run on the page
C23_ExtractionFallsThrough ==
    Parsed(StructuredSpiders) => FallsThrough

\* The extractor of salernotoday does fall through
SalernoTodayFallsThrough ==
    Parsed({"salernotoday"}) => FallsThrough

\* salernotoday has gone past a block that does not decode to one that does
SecondBlockUsed ==
    /\ Parsed({"salernotoday"})
    /\ detail.page[1].blocks = <<"malformed", "event">>
    /\ detail.trace[1].decoded = 2
    /\ pipe.item # <<>>

----------------------------------------------------------------------------
(* Properties of SpecList *)

Crawling == listing.spider # "none"

\* C29: the requests yielded for a start URL, over its start page and the
\* pages followed from it, are never more than MAX_ITEMS_PER_URL, and they
\* are as many as the links of its own pages allow up to the cap, whatever
\* the other start URL of the spider has yielded
C29_ItemCapPerStartUrl ==
    Crawling =>
        \A s \in StartUrls(listing.spider) :
            /\ listing.yielded[s] <= MaxItemsPerUrl
            /\ listing.yielded[s] =
                 (IF listing.offered[s] < MaxItemsPerUrl
                  THEN listing.offered[s] ELSE MaxItemsPerUrl)

\* C29 witness: one start URL of ilvescovado is at the cap and the other has
\* had every link of its page requested
C29_Witness ==
    /\ listing.spider = "ilvescovado"
    /\ listing.queue = {}
    /\ listing.yielded[1] = MaxItemsPerUrl
    /\ listing.offered[1] > MaxItemsPerUrl
    /\ listing.yielded[2] = 8

\* The cap is reached on a followed page
CapReachedOnFollowedPage ==
    /\ listing.spider = "ilportico"
    /\ listing.queue = {}
    /\ listing.yielded[1] = MaxItemsPerUrl
    /\ listing.offered[1] = 8 + MaxItemsPerUrl

====
